---- MODULE Spec2Model ----
(***************************************************************************)
(* Model of the dataset-downloader worker: the retrying blob uploader      *)
(* (_upload_one), the bulk upload engine (upload_files), the paginated     *)
(* Kaggle listing client (get_all_dataset_files) and the orchestrators     *)
(* that string listing, download, upload and notification together.       *)
(***************************************************************************)
EXTENDS Integers, Sequences, FiniteSets, TLC

VARIABLES
  \* _upload_one
  up,           \* per upload task: [pc, attempt, calls, slept] of _upload_one
  max_retries,  \* per upload task: the max_retries argument of _upload_one
  blobFails,    \* per file: how many upload_from_filename calls raise before one succeeds
  h_pc,         \* caller of a single _upload_one: "none" | "call" | "called"
  store,        \* object store: keys (file ids) for which upload_from_filename succeeded
  objects,      \* object store: the content held under each key
  \* upload_files
  upload_worker,\* max_workers of the upload pool
  uf_pc,        \* upload_files: "off" | "call" | "pool" | "returned" | "raised"
  to_upload,    \* upload_files: the (local_path, gcs_path) list, as file ids
  yielded,      \* per upload task: how many times as_completed handed its future to the loop
  logged,       \* upload tasks whose exception was caught and logged by upload_files
  uf_ret,       \* value upload_files returned to its caller
  uf_args,      \* upload_files: [bucket, repo_id, dest_prefix] of the call
  staged,       \* files present under the staging directory (file ids)
  runs,         \* number of upload_files calls started on the staging directory
  \* get_all_dataset_files
  creds,        \* KAGGLE_USERNAME and KAGGLE_KEY are both set
  srv,          \* the listing server: per page [rate, final], the number of 429 answers
                \* it gives for the page and what it answers after them
  pg_pc,        \* pager: "off" | "call" | "FETCHING" | "BACKOFF" | "DONE" | "FAILED"
  retries,      \* pager: retries
  page_token,   \* pager: page_token (0 is None, else the token of that page)
  all_files,    \* pager: all_files
  requests,     \* the pageToken parameter of every requests.get issued, in order
  pg_slept,     \* the sleep_time of every time.sleep of the pager, in order
  pg_ret,       \* pager: returned value, [kind, files] with kind "pending" | "null" | "list"
  \* _download_file_worker and its pool
  dl,           \* per download task: [pc, attempt, calls, slept, status]
  dlScript,     \* per file: [rate, final], the number of rate-limit errors of
                \* dataset_download_file for the file and what it does after them
  max_workers,  \* max_workers of the download pool
  dl_yielded,   \* per download task: how many times as_completed yielded its future
  \* orchestrators
  variant,      \* "none" | "concurrent" | "cli" | "hf": the entry point that runs
  j_pc,         \* "off" | "start" | "listing" | "downloading" | "uploading" | "end"
  j_result,     \* "running" | "returned" | "raised"
  repo_id,      \* repo_id, as the sequence of its '/'-separated components
  dirCreated,   \* os.makedirs(dest) has run
  fetchOutcome, \* what the bulk fetch (datasets builder, kaggle CLI) does: "ok" | "fail"
  fetched,      \* the files a successful bulk fetch leaves under dest
  pubOutcome,   \* what the Pub/Sub client does: "ok" | "timeout" | "notfound" | "error"
  published,    \* the messages handed to the Pub/Sub client, [dataset, destination]
  pub_status,   \* the Status returned by the last Publisher.publish
  \* the directory walk of upload_files, on paths
  walkIn,       \* [source, tree, dest_prefix, repo_id, parquet_only] of the call
  walk,         \* [pc, pending, out]: directories still to visit, to_upload so far
  \* frontend: POST /enqueue
  enq,          \* the request and the Cloud Run client: [dataset, source, dest_suffix, client]
  enqOut,       \* [pc, code, status, execution, run_job_calls] of the handler
  \* check_datasets_server_parquet_status
  pq,           \* [response, show_files]: what the datasets server does, and the argument
  pqOut         \* [pc, status]: "call" | "returned", and the dictionary returned

upVars == <<up, max_retries, blobFails, h_pc, store, objects>>
ufVars == <<upload_worker, uf_pc, to_upload, yielded, logged, uf_ret, uf_args, staged, runs>>
pgVars == <<creds, srv, pg_pc, retries, page_token, all_files, requests, pg_slept, pg_ret>>
dlVars == <<dl, dlScript, max_workers, dl_yielded>>
jobVars == <<variant, j_pc, j_result, repo_id, dirCreated, fetchOutcome, fetched,
             pubOutcome, published, pub_status>>
walkVars == <<walkIn, walk>>
enqVars == <<enq, enqOut>>
pqVars == <<pq, pqOut>>
vars == <<upVars, ufVars, pgVars, dlVars, jobVars, walkVars, enqVars, pqVars>>

----------------------------------------------------------------------------
(* Bounds of the model *)

MaxRetriesArg == 5      \* largest max_retries handed to a single _upload_one
MaxFailN == 5           \* largest number of leading upload failures of the fake blob
MaxFiles == 3           \* largest batch of upload_files
MaxWorkers == 2         \* largest upload pool
MaxPages == 2           \* largest number of pages of a listing
MaxRate == 5            \* largest number of 429 answers the server gives for one page
MaxConfigs == 2         \* largest configurations list of a datasets server answer
MaxParquetFiles == 1    \* largest parquet_files list of a datasets server answer
MaxRuns == 2            \* largest number of upload_files runs over one staging directory
LiveFiles == 2          \* largest batch of the upload_files runs checked for termination

(* Program constants *)

DefaultMaxRetries == 3  \* _upload_one(max_retries=3)
GCS_BUCKET == "3p-datasets-bucket"
GCS_KAGGLE_PREFIX == "kaggle"
GCS_PREFIX == "huggingface"
MAX_RETRIES == 5        \* worker_util/kaggle.py
BACKOFF_FACTOR == 1     \* worker_util/kaggle.py
DL_MAX_RETRIES == 3     \* kaggle_downloader.py MAX_RETRIES
BASE_BACKOFF_SECONDS == 2

\* behaviours of the fake blob in a batch: uploads at once, fails once, fails on every attempt
BlobScripts == {0, 1, DefaultMaxRetries}

NoneVal == <<>>         \* Python's None

RECURSIVE Pow2(_)
Pow2(n) == IF n <= 0 THEN 1 ELSE 2 * Pow2(n - 1)

----------------------------------------------------------------------------
(* _upload_one *)

NewTask == [pc |-> "queued", attempt |-> 0, calls |-> 0, slept |-> <<>>]

\* `for attempt in range(max_retries)`: the body runs while attempt < max_retries,
\* and the function returns None when the range is exhausted
LoopHead(attempt, maxr) == IF attempt < maxr THEN "attempt" ELSE "returned"

\* blob.upload_from_filename of the fake blob: the first n calls raise
UploadSucceeds(callsBefore, n) == callsBefore >= n

\* variant: gives up one attempt early
AfterAttempt_GivesUpEarly(t, maxr, ok) ==
  IF ok
    THEN [t EXCEPT !.pc = "returned", !.calls = @ + 1]
    ELSE IF t.attempt < maxr - 2
      THEN [t EXCEPT !.pc = "sleep", !.calls = @ + 1,
                     !.slept = Append(@, Pow2(t.attempt))]
      ELSE [t EXCEPT !.pc = "raised", !.calls = @ + 1]

\* variant: a failed attempt is repeated without being counted
AfterAttempt_NotCounted(t, maxr, ok) ==
  IF ok THEN [t EXCEPT !.pc = "returned", !.calls = @ + 1] ELSE t

\* variant: the sleep grows linearly
AfterAttempt_LinearBackoff(t, maxr, ok) ==
  IF ok
    THEN [t EXCEPT !.pc = "returned", !.calls = @ + 1]
    ELSE IF t.attempt < maxr - 1
      THEN [t EXCEPT !.pc = "sleep", !.calls = @ + 1,
                     !.slept = Append(@, t.attempt + 1)]
      ELSE [t EXCEPT !.pc = "raised", !.calls = @ + 1]

\* what one pass through the try/except of _upload_one does to the task
AfterAttempt(t, maxr, ok) ==
  IF ok
    THEN [t EXCEPT !.pc = "returned", !.calls = @ + 1]
    ELSE IF t.attempt < maxr - 1
      THEN [t EXCEPT !.pc = "sleep", !.calls = @ + 1,
                     !.slept = Append(@, Pow2(t.attempt))]
      ELSE [t EXCEPT !.pc = "raised", !.calls = @ + 1]

\* the remote key and the content of file f: the key derives from the file's
\* relative path, which is unique in the tree
\* variant: the key drops the relative path
KeyOf_DropsRelPath(f) == 0

KeyOf(f) == f
ContentOf(f) == f

\* blob.upload_from_filename without precondition: the object is created or
\* overwritten
Put(objs, key, content) ==
  [k \in DOMAIN objs \cup {key} |-> IF k = key THEN content ELSE objs[k]]

\* the caller enters _upload_one
CallUploadOne ==
  /\ h_pc = "call"
  /\ h_pc' = "called"
  /\ up' = [up EXCEPT ![1].pc = LoopHead(0, max_retries[1])]
  /\ UNCHANGED <<max_retries, blobFails, store, objects>>
  /\ UNCHANGED <<ufVars, pgVars, dlVars, jobVars>>
  /\ UNCHANGED <<walkVars, enqVars, pqVars>>

\* one blob.upload_from_filename call and the handling of its outcome
UploadAttempt(f) ==
  /\ up[f].pc = "attempt"
  /\ LET ok == UploadSucceeds(up[f].calls, blobFails[f]) IN
       /\ up' = [up EXCEPT ![f] = AfterAttempt(up[f], max_retries[f], ok)]
       /\ store' = IF ok THEN store \cup {f} ELSE store
       /\ objects' = IF ok THEN Put(objects, KeyOf(f), ContentOf(f)) ELSE objects
  /\ UNCHANGED <<max_retries, blobFails, h_pc>>
  /\ UNCHANGED <<ufVars, pgVars, dlVars, jobVars>>
  /\ UNCHANGED <<walkVars, enqVars, pqVars>>

\* time.sleep(2 ** attempt) is over: next iteration of the for loop
UploadBackoff(f) ==
  /\ up[f].pc = "sleep"
  /\ up' = [up EXCEPT ![f].attempt = @ + 1,
                      ![f].pc = LoopHead(up[f].attempt + 1, max_retries[f])]
  /\ UNCHANGED <<max_retries, blobFails, h_pc, store, objects>>
  /\ UNCHANGED <<ufVars, pgVars, dlVars, jobVars>>
  /\ UNCHANGED <<walkVars, enqVars, pqVars>>

----------------------------------------------------------------------------
(* upload_files *)

Tasks == DOMAIN up

Finished(f) == up[f].pc \in {"returned", "raised"}
InFlight == {f \in Tasks : up[f].pc \in {"attempt", "sleep"}}
Queued == {f \in Tasks : up[f].pc = "queued"}

\* ThreadPoolExecutor hands queued work items to its threads in submission order
NextQueued ==
  LET i == CHOOSE i \in 1..Len(to_upload) :
             /\ up[to_upload[i]].pc = "queued"
             /\ \A j \in 1..(i - 1) : up[to_upload[j]].pc # "queued"
  IN to_upload[i]

\* the orders in which os.walk can hand out the files of the tree
Orderings(S) ==
  {s \in [1..Cardinality(S) -> S] : \A i, j \in DOMAIN s : i # j => s[i] # s[j]}

\* the walk of the source tree, then one executor.submit per (local_path, gcs_path)
\* with the default max_retries
UploadFilesCall ==
  /\ uf_pc = "call"
  /\ \E order \in Orderings(staged) : to_upload' = order
  /\ up' = [f \in staged |-> NewTask]
  /\ max_retries' = [f \in staged |-> DefaultMaxRetries]
  /\ yielded' = [f \in staged |-> 0]
  /\ uf_pc' = "pool"
  /\ runs' = runs + 1
  /\ UNCHANGED <<blobFails, h_pc, store, objects>>
  /\ UNCHANGED <<upload_worker, logged, uf_ret, uf_args, staged>>
  /\ UNCHANGED <<pgVars, dlVars, jobVars>>
  /\ UNCHANGED <<walkVars, enqVars, pqVars>>

\* variant: a work item starts as soon as it is submitted
SlotFree_Always(inflight, workers) == TRUE

\* ThreadPoolExecutor(max_workers=workers): a queued work item starts only
\* when fewer than workers threads are busy
SlotFree(inflight, workers) == Cardinality(inflight) < workers

\* a pool thread is free and takes the next work item
PoolStart ==
  /\ uf_pc = "pool"
  /\ Queued # {}
  /\ SlotFree(InFlight, upload_worker)
  /\ LET f == NextQueued IN
       up' = [up EXCEPT ![f].pc = LoopHead(0, max_retries[f])]
  /\ UNCHANGED <<max_retries, blobFails, h_pc, store, objects>>
  /\ UNCHANGED <<ufVars, pgVars, dlVars, jobVars>>
  /\ UNCHANGED <<walkVars, enqVars, pqVars>>

\* the body of `for f in as_completed(futures)`: f.result() in a try/except
\* that logs the exception of a failed upload
ResultRaises(f) == up[f].pc = "raised"

\* variant: no try/except around f.result()
AfterResult_Uncaught(raises) == IF raises THEN "propagate" ELSE "ok"

AfterResult(raises) == IF raises THEN "caught" ELSE "ok"

Collect(f) ==
  /\ uf_pc = "pool"
  /\ Finished(f)
  /\ yielded[f] = 0
  /\ yielded' = [yielded EXCEPT ![f] = @ + 1]
  /\ LET r == AfterResult(ResultRaises(f)) IN
       /\ logged' = IF r = "caught" THEN logged \cup {f} ELSE logged
       /\ uf_pc' = IF r = "propagate" THEN "raised" ELSE uf_pc
  /\ UNCHANGED upVars
  /\ UNCHANGED <<upload_worker, to_upload, uf_ret, uf_args, staged, runs>>
  /\ UNCHANGED <<pgVars, dlVars, jobVars>>
  /\ UNCHANGED <<walkVars, enqVars, pqVars>>

\* as_completed is exhausted once every future was yielded; the with block
\* shuts the pool down (wait=True) and upload_files falls off its end
\* variant: the loop stops at the first completed future
AllYielded_FirstCompleted == Tasks = {} \/ \E f \in Tasks : yielded[f] >= 1

AllYielded == \A f \in Tasks : yielded[f] >= 1

UploadFilesResult(bucket, dest_prefix, repo) == NoneVal

UploadFilesReturn ==
  /\ uf_pc = "pool"
  /\ AllYielded
  /\ \A f \in Tasks : Finished(f)
  /\ uf_pc' = "returned"
  /\ uf_ret' = UploadFilesResult(uf_args.bucket, uf_args.dest_prefix, uf_args.repo_id)
  /\ UNCHANGED upVars
  /\ UNCHANGED <<upload_worker, to_upload, yielded, logged, uf_args, staged, runs>>
  /\ UNCHANGED <<pgVars, dlVars, jobVars>>
  /\ UNCHANGED <<walkVars, enqVars, pqVars>>

\* the same dataset is enqueued again: a new job execution runs upload_files
\* over the same staging directory and the same destination
UploadFilesRerun ==
  /\ uf_pc = "returned"
  /\ runs < MaxRuns
  /\ uf_pc' = "call"
  /\ UNCHANGED upVars
  /\ UNCHANGED <<upload_worker, to_upload, yielded, logged, uf_ret, uf_args, staged, runs>>
  /\ UNCHANGED <<pgVars, dlVars, jobVars>>
  /\ UNCHANGED <<walkVars, enqVars, pqVars>>

----------------------------------------------------------------------------
(* get_all_dataset_files *)

\* the listing server
NumPages == Len(srv)
PageOf(tok) == IF tok = 0 THEN 1 ELSE tok
NextPageToken(p) == IF p < NumPages THEN p + 1 ELSE 0

\* a page token is None (0), the empty string (EmptyToken) or names a page
EmptyToken == -1

\* `not page_token or len(page_token) == 0`
Falsy(tok) == tok = 0 \/ tok = EmptyToken

\* data.get('nextPageToken') of the successful answer for page p: a server may
\* end the listing with an empty token instead of leaving the token out
ResponseToken(p) == IF srv[p].final = "ok_empty" THEN EmptyToken ELSE NextPageToken(p)

\* `if page_token: params['pageToken'] = page_token`: 0 when no token is sent
SentToken(tok) == IF Falsy(tok) THEN 0 ELSE tok
ItemsOnPage(p) == IF p % 2 = 1 THEN 2 ELSE 1
PageItems(p) == [i \in 1..ItemsOnPage(p) |-> 10 * p + i]

\* requests issued so far for page p
RECURSIVE CountFor(_, _)
CountFor(reqs, p) ==
  IF reqs = <<>> THEN 0
  ELSE (IF PageOf(Head(reqs)) = p THEN 1 ELSE 0) + CountFor(Tail(reqs), p)

\* the answer of the server to the next request for page p
Respond(p, served) == IF served < srv[p].rate THEN "429" ELSE srv[p].final

\* the local state of the pager
PagerState(pc, r, tok, files, slept, ret) ==
  [pc |-> pc, retries |-> r, page_token |-> tok, all_files |-> files,
   pg_slept |-> slept, pg_ret |-> ret]

ReturnList(files) == [kind |-> "list", files |-> files]
ReturnNull == [kind |-> "null", files |-> <<>>]
Pending == [kind |-> "pending", files |-> <<>>]

\* bottom of the outer `while True`: stop when there is no next page token,
\* otherwise start the next page with retries = 0
OuterLoopBottom(tok, files, slept) ==
  IF Falsy(tok)
    THEN PagerState("DONE", 0, tok, files, slept, ReturnList(files))
    ELSE PagerState("FETCHING", 0, tok, files, slept, Pending)

\* the inner `while retries < MAX_RETRIES` condition after a sleep
InnerLoopHead(r, tok, files, slept) ==
  IF r < MAX_RETRIES
    THEN PagerState("FETCHING", r, tok, files, slept, Pending)
    ELSE OuterLoopBottom(tok, files, slept)

\* variant: the retry budget is one request short
On429_OneShort(r, tok, files, slept) ==
  IF r + 1 >= MAX_RETRIES - 1
    THEN PagerState("FAILED", r + 1, tok, files, slept, ReturnList(files))
    ELSE PagerState("BACKOFF", r + 1, tok, files,
                    Append(slept, BACKOFF_FACTOR * Pow2(r + 1)), Pending)

\* variant: exhaustion of the retry budget returns None
On429_NullOnExhaustion(r, tok, files, slept) ==
  IF r + 1 >= MAX_RETRIES
    THEN PagerState("FAILED", r + 1, tok, files, slept, ReturnNull)
    ELSE PagerState("BACKOFF", r + 1, tok, files,
                    Append(slept, BACKOFF_FACTOR * Pow2(r + 1)), Pending)

\* variant: a 429 answer is not counted against the retry budget
On429_NotCounted(r, tok, files, slept) ==
  PagerState("BACKOFF", r, tok, files,
             Append(slept, BACKOFF_FACTOR * Pow2(r + 1)), Pending)

\* the handling of a 429 answer
On429(r, tok, files, slept) ==
  IF r + 1 >= MAX_RETRIES
    THEN PagerState("FAILED", r + 1, tok, files, slept, ReturnList(files))
    ELSE PagerState("BACKOFF", r + 1, tok, files,
                    Append(slept, BACKOFF_FACTOR * Pow2(r + 1)), Pending)

\* variant: salvages the partial list on a hard error
OnError_Salvage(r, tok, files, slept) ==
  PagerState("FAILED", r, tok, files, slept, ReturnList(files))

\* every other exception of the try block
OnError(r, tok, files, slept) ==
  PagerState("FAILED", r, tok, files, slept, ReturnNull)

\* variant: the token of the answer is not stored
OnSuccess_KeepsToken(p, tok, files, slept) ==
  OuterLoopBottom(tok, files \o PageItems(p), slept)

\* a successful answer for page p
OnSuccess(p, tok, files, slept) ==
  OuterLoopBottom(ResponseToken(p), files \o PageItems(p), slept)

\* variant: the retry counter is carried over to the next page
AfterResponse_KeepsRetries(ans, r, tok, files, slept) ==
  CASE ans \in {"ok", "ok_empty"} ->
         [OnSuccess(PageOf(tok), tok, files, slept) EXCEPT !.retries = r]
    [] ans = "429" -> On429(r, tok, files, slept)
    [] OTHER       -> OnError(r, tok, files, slept)

AfterResponse(ans, r, tok, files, slept) ==
  CASE ans \in {"ok", "ok_empty"} -> OnSuccess(PageOf(tok), tok, files, slept)
    [] ans = "429" -> On429(r, tok, files, slept)
    [] OTHER       -> OnError(r, tok, files, slept)

SetPager(st) ==
  /\ pg_pc' = st.pc
  /\ retries' = st.retries
  /\ page_token' = st.page_token
  /\ all_files' = st.all_files
  /\ pg_slept' = st.pg_slept
  /\ pg_ret' = st.pg_ret

\* entry: the credentials check, then the first pass of the outer loop
PagerEntry(hasCreds) ==
  IF hasCreds
    THEN PagerState("FETCHING", 0, 0, <<>>, <<>>, Pending)
    ELSE PagerState("FAILED", 0, 0, <<>>, <<>>, ReturnNull)

PagerCall ==
  /\ pg_pc = "call"
  /\ SetPager(PagerEntry(creds))
  /\ UNCHANGED <<creds, srv, requests>>
  /\ UNCHANGED <<upVars, ufVars, dlVars, jobVars>>
  /\ UNCHANGED <<walkVars, enqVars, pqVars>>

\* one requests.get with the current page token and the handling of its answer
PagerRequest ==
  /\ pg_pc = "FETCHING"
  /\ requests' = Append(requests, SentToken(page_token))
  /\ LET p == PageOf(page_token)
         ans == Respond(p, CountFor(requests, p))
     IN SetPager(AfterResponse(ans, retries, page_token, all_files, pg_slept))
  /\ UNCHANGED <<creds, srv>>
  /\ UNCHANGED <<upVars, ufVars, dlVars, jobVars>>
  /\ UNCHANGED <<walkVars, enqVars, pqVars>>

\* time.sleep(sleep_time) is over
PagerBackoff ==
  /\ pg_pc = "BACKOFF"
  /\ SetPager(InnerLoopHead(retries, page_token, all_files, pg_slept))
  /\ UNCHANGED <<creds, srv, requests>>
  /\ UNCHANGED <<upVars, ufVars, dlVars, jobVars>>
  /\ UNCHANGED <<walkVars, enqVars, pqVars>>

----------------------------------------------------------------------------
(* _download_file_worker and the download pool *)

NewDownload == [pc |-> "queued", attempt |-> 0, calls |-> 0, slept |-> <<>>,
                status |-> "pending"]

\* kaggle_api_instance.dataset_download_file for file f: the first rate calls
\* raise an exception whose text contains '429', then it does what final says
DownloadAnswer(f, callsBefore) ==
  IF callsBefore < dlScript[f].rate THEN "429" ELSE dlScript[f].final

\* `for attempt in range(MAX_RETRIES)`: when the range is exhausted the function
\* falls off its end and returns None
DlLoopHead(t) ==
  IF t.attempt < DL_MAX_RETRIES
    THEN [t EXCEPT !.pc = "attempt"]
    ELSE [t EXCEPT !.pc = "done", !.status = "none"]

\* variant: a rate-limit failure is always followed by a sleep
DlAfterAttempt_SleepsOnLast(t, ans) ==
  CASE ans = "ok" ->
         [t EXCEPT !.pc = "done", !.calls = @ + 1, !.status = "ok"]
    [] ans = "429" ->
         [t EXCEPT !.pc = "sleep", !.calls = @ + 1,
                   !.slept = Append(@, BASE_BACKOFF_SECONDS * Pow2(t.attempt))]
    [] OTHER ->
         [t EXCEPT !.pc = "done", !.calls = @ + 1, !.status = "failed"]

\* one pass through the try/except of _download_file_worker
DlAfterAttempt(t, ans) ==
  CASE ans = "ok" ->
         [t EXCEPT !.pc = "done", !.calls = @ + 1, !.status = "ok"]
    [] ans = "429" ->
         IF t.attempt < DL_MAX_RETRIES - 1
           THEN [t EXCEPT !.pc = "sleep", !.calls = @ + 1,
                          !.slept = Append(@, BASE_BACKOFF_SECONDS * Pow2(t.attempt))]
           ELSE [t EXCEPT !.pc = "done", !.calls = @ + 1, !.status = "failed"]
    [] OTHER ->
         [t EXCEPT !.pc = "done", !.calls = @ + 1, !.status = "failed"]

Downloads == DOMAIN dl
DlInFlight == {f \in Downloads : dl[f].pc \in {"attempt", "sleep"}}
DlQueued == {f \in Downloads : dl[f].pc = "queued"}

\* submission order is the order of all_files
NextDownload ==
  LET i == CHOOSE i \in 1..Len(all_files) :
             /\ dl[all_files[i]].pc = "queued"
             /\ \A j \in 1..(i - 1) : dl[all_files[j]].pc # "queued"
  IN all_files[i]

DlStart ==
  /\ j_pc = "downloading"
  /\ DlQueued # {}
  /\ SlotFree(DlInFlight, max_workers)
  /\ LET f == NextDownload IN dl' = [dl EXCEPT ![f] = DlLoopHead(dl[f])]
  /\ UNCHANGED <<dlScript, max_workers, dl_yielded>>
  /\ UNCHANGED <<upVars, ufVars, pgVars, jobVars>>
  /\ UNCHANGED <<walkVars, enqVars, pqVars>>

\* one dataset_download_file call; a successful one leaves the file under dest
DlAttempt(f) ==
  /\ dl[f].pc = "attempt"
  /\ LET ans == DownloadAnswer(f, dl[f].calls) IN
       /\ dl' = [dl EXCEPT ![f] = DlAfterAttempt(dl[f], ans)]
       /\ staged' = IF ans = "ok" THEN staged \cup {f} ELSE staged
  /\ UNCHANGED <<dlScript, max_workers, dl_yielded>>
  /\ UNCHANGED <<upload_worker, uf_pc, to_upload, yielded, logged, uf_ret, uf_args, runs>>
  /\ UNCHANGED <<upVars, pgVars, jobVars>>
  /\ UNCHANGED <<walkVars, enqVars, pqVars>>

DlBackoff(f) ==
  /\ dl[f].pc = "sleep"
  /\ dl' = [dl EXCEPT ![f] = DlLoopHead([dl[f] EXCEPT !.attempt = @ + 1])]
  /\ UNCHANGED <<dlScript, max_workers, dl_yielded>>
  /\ UNCHANGED <<upVars, ufVars, pgVars, jobVars>>
  /\ UNCHANGED <<walkVars, enqVars, pqVars>>

\* the body of the as_completed loop of the download pool: nothing but logging
DlCollect(f) ==
  /\ j_pc = "downloading"
  /\ dl[f].pc = "done"
  /\ dl_yielded[f] = 0
  /\ dl_yielded' = [dl_yielded EXCEPT ![f] = @ + 1]
  /\ UNCHANGED <<dl, dlScript, max_workers>>
  /\ UNCHANGED <<upVars, ufVars, pgVars, jobVars>>
  /\ UNCHANGED <<walkVars, enqVars, pqVars>>

----------------------------------------------------------------------------
(* Strings as sequences of characters: the str and os.path operations that  *)
(* upload_files and the frontend apply to paths and names                   *)

UpperCase == <<"A", "B", "C", "D", "E", "F", "G", "H", "I", "J", "K", "L", "M",
               "N", "O", "P", "Q", "R", "S", "T", "U", "V", "W", "X", "Y", "Z">>
LowerCase == <<"a", "b", "c", "d", "e", "f", "g", "h", "i", "j", "k", "l", "m",
               "n", "o", "p", "q", "r", "s", "t", "u", "v", "w", "x", "y", "z">>

LowerChar(c) ==
  IF \E i \in 1..Len(UpperCase) : UpperCase[i] = c
    THEN LowerCase[CHOOSE i \in 1..Len(UpperCase) : UpperCase[i] = c]
    ELSE c

\* str.lower, str.startswith, str.endswith
Lower(s) == [i \in 1..Len(s) |-> LowerChar(s[i])]
StartsWith(s, pre) == Len(s) >= Len(pre) /\ SubSeq(s, 1, Len(pre)) = pre
EndsWith(s, suf) == Len(s) >= Len(suf) /\ SubSeq(s, Len(s) - Len(suf) + 1, Len(s)) = suf

\* str.lstrip(c)
RECURSIVE LStrip(_, _)
LStrip(s, c) == IF s # <<>> /\ s[1] = c THEN LStrip(Tail(s), c) ELSE s

\* one step of posixpath.join: an absolute component discards what came before
Join2(a, b) ==
  IF StartsWith(b, <<"/">>) THEN b
  ELSE IF a = <<>> \/ a[Len(a)] = "/" THEN a \o b
  ELSE a \o <<"/">> \o b

\* os.path.join(a, b, c)
PathJoin(a, b, c) == Join2(Join2(a, b), c)

\* os.path.join(*parts)
RECURSIVE JoinAll(_)
JoinAll(parts) ==
  IF parts = <<>> THEN <<>>
  ELSE IF Len(parts) = 1 THEN parts[1]
  ELSE Join2(JoinAll(SubSeq(parts, 1, Len(parts) - 1)), parts[Len(parts)])

\* [x for x in s.split('/') if x]
RECURSIVE SplitPath(_)
SplitPath(s) ==
  IF s = <<>> THEN <<>>
  ELSE IF s[1] = "/" THEN SplitPath(Tail(s))
  ELSE LET n == IF \E i \in 1..Len(s) : s[i] = "/"
                  THEN CHOOSE i \in 1..Len(s) :
                         s[i] = "/" /\ \A j \in 1..(i - 1) : s[j] # "/"
                  ELSE Len(s) + 1
       IN <<SubSeq(s, 1, n - 1)>> \o SplitPath(SubSeq(s, n, Len(s)))

\* the length of the longest common prefix of two component lists
CommonPrefix(a, b) ==
  CHOOSE n \in 0..Len(a) :
    /\ n <= Len(b)
    /\ SubSeq(a, 1, n) = SubSeq(b, 1, n)
    /\ (n < Len(a) /\ n < Len(b)) => a[n + 1] # b[n + 1]

\* os.path.relpath(path, start) for absolute paths without '.' and '..'
RelPath(path, start) ==
  LET start_list == SplitPath(start)
      path_list == SplitPath(path)
      i == CommonPrefix(start_list, path_list)
      rel_list == [k \in 1..(Len(start_list) - i) |-> <<".", ".">>]
                    \o SubSeq(path_list, i + 1, Len(path_list))
  IN IF rel_list = <<>> THEN <<".">> ELSE JoinAll(rel_list)

----------------------------------------------------------------------------
(* upload_files: the walk over the source directory that builds to_upload   *)

\* the literals of the pruning and of the parquet filter
TMP == <<"t", "m", "p">>
TEMP == <<"t", "e", "m", "p">>
PYCACHE == <<"_", "_", "p", "y", "c", "a", "c", "h", "e", "_", "_">>
DOT_PARQUET == <<".", "p", "a", "r", "q", "u", "e", "t">>

\* a tree is the set of its files, each [dir |-> names below the source,
\* name |-> file name]; its directories are those that hold a file
DirsOf(tree) == UNION {{SubSeq(f.dir, 1, n) : n \in 0..Len(f.dir)} : f \in tree}
SubDirs(tree, d) ==
  {x \in DirsOf(tree) : Len(x) = Len(d) + 1 /\ SubSeq(x, 1, Len(d)) = d}
FilesIn(tree, d) == {f \in tree : f.dir = d}

\* variant: the name is compared as it is spelled
Pruned_CaseSensitive(name) ==
  \/ StartsWith(name, <<".">>)
  \/ StartsWith(name, TMP)
  \/ StartsWith(name, TEMP)
  \/ name = PYCACHE

\* the directories removed from dirs[:]
Pruned(name) ==
  \/ StartsWith(name, <<".">>)
  \/ StartsWith(Lower(name), TMP)
  \/ StartsWith(Lower(name), TEMP)
  \/ name = PYCACHE

\* variant: the flag is ignored
KeepFile_Always(parquet_only, fname) == TRUE

\* if parquet_only and not fname.endswith('.parquet'): continue
KeepFile(parquet_only, fname) == ~(parquet_only /\ ~EndsWith(fname, DOT_PARQUET))

\* the root os.walk yields for the directory d below top
RootOf(top, d) == JoinAll(<<top>> \o d)

\* the pair appended to to_upload for the file fname found in directory d
Entry(in, d, fname) ==
  LET local_path == Join2(RootOf(in.source, d), fname)
      rel_path == RelPath(local_path, in.source)
      gcs_path == LStrip(PathJoin(in.dest_prefix, in.repo_id, rel_path), "/")
  IN [local_path |-> local_path, gcs_path |-> gcs_path]

\* one iteration of the os.walk loop: the directory at the head is listed,
\* its kept subdirectories are walked next, its kept files are appended
WalkVisit ==
  /\ walk.pc = "walking"
  /\ walk.pending # <<>>
  /\ LET d == Head(walk.pending)
         dirs == {x \in SubDirs(walkIn.tree, d) : ~Pruned(x[Len(x)])}
         files == {f \in FilesIn(walkIn.tree, d) : KeepFile(walkIn.parquet_only, f.name)}
     IN \E ds \in Orderings(dirs), fs \in Orderings(files) :
          walk' = [walk EXCEPT
                     !.pending = ds \o Tail(walk.pending),
                     !.out = walk.out \o [i \in 1..Len(fs) |-> Entry(walkIn, d, fs[i].name)]]
  /\ UNCHANGED walkIn
  /\ UNCHANGED <<upVars, ufVars, pgVars, dlVars, jobVars, enqVars, pqVars>>

\* os.walk is exhausted: to_upload is complete
WalkDone ==
  /\ walk.pc = "walking"
  /\ walk.pending = <<>>
  /\ walk' = [walk EXCEPT !.pc = "done"]
  /\ UNCHANGED walkIn
  /\ UNCHANGED <<upVars, ufVars, pgVars, dlVars, jobVars, enqVars, pqVars>>

----------------------------------------------------------------------------
(* frontend: POST /enqueue and trigger_download_job *)

Digits == <<"0", "1", "2", "3", "4", "5", "6", "7", "8", "9">>
Range(seq) == {seq[i] : i \in 1..Len(seq)}

\* the character class [a-zA-Z0-9_-]
WordChar(c) == c \in Range(LowerCase) \cup Range(UpperCase) \cup Range(Digits) \cup {"_", "-"}

\* not s.strip()
Blank(s) == \A i \in 1..Len(s) : s[i] \in {" ", "\t", "\n"}

\* s.split('/'): empty parts are kept
RECURSIVE SplitAll(_)
SplitAll(s) ==
  IF \E i \in 1..Len(s) : s[i] = "/"
    THEN LET n == CHOOSE i \in 1..Len(s) : s[i] = "/" /\ \A j \in 1..(i - 1) : s[j] # "/"
         IN <<SubSeq(s, 1, n - 1)>> \o SplitAll(SubSeq(s, n + 1, Len(s)))
    ELSE <<s>>

\* re.fullmatch(r"[a-zA-Z0-9_-]+/[a-zA-Z0-9_-]+", dataset)
is_valid_dataset(dataset) ==
  LET parts == SplitAll(dataset)
  IN /\ Len(parts) = 2
     /\ \A k \in 1..2 : parts[k] # <<>> /\ \A i \in 1..Len(parts[k]) : WordChar(parts[k][i])

is_valid_suffix_format(suffix) ==
  IF StartsWith(suffix, <<"/">>) \/ EndsWith(suffix, <<"/">>)
    THEN FALSE
    ELSE LET parts == SplitAll(suffix)
         IN \A k \in 1..Len(parts) : parts[k] # <<>> /\ parts[k] \notin {<<".">>, <<".", ".">>}

KAGGLE == <<"k", "a", "g", "g", "l", "e">>
HUGGINGFACE == <<"h", "u", "g", "g", "i", "n", "g", "f", "a", "c", "e">>

\* the checks of enqueue that answer 400; an absent field reads as empty
Rejected(req) ==
  \/ Blank(req.dataset)
  \/ ~is_valid_dataset(req.dataset)
  \/ req.source = <<>>
  \/ req.source \notin {KAGGLE, HUGGINGFACE}
  \/ (req.dest_suffix # <<>> /\ ~is_valid_suffix_format(req.dest_suffix))

\* the parameters of trigger_download_job and the keywords enqueue passes
TriggerParams == {"dataset", "dest_suffix"}
CallKeywords == {"dataset", "source", "dest_suffix"}

\* the call binds its keywords, else Python raises TypeError before the body
Binds == CallKeywords \subseteq TriggerParams

\* the name of the operation run_job returns
OperationName == "operation"

Response(code, body) == [code |-> code, body |-> body]

\* what trigger_download_job returns for what the Cloud Run client does;
\* "raised" when an exception leaves it (the ValueError handler reads e.message)
TriggerResult(client) ==
  CASE client = "ok" -> [operation_id |-> OperationName, ok |-> TRUE]
    [] client \in {"api_error", "retry_error"} -> [operation_id |-> "", ok |-> FALSE]
    [] OTHER -> [operation_id |-> "", ok |-> FALSE, raised |-> TRUE]

\* enqueue, lines 26-44: the request is parsed and validated
EnqueueValidate ==
  /\ enqOut.pc = "request"
  /\ IF Rejected(enq)
       THEN enqOut' = [enqOut EXCEPT !.pc = "done",
                                      !.response = Response(400, [error |-> "invalid"])]
       ELSE enqOut' = [enqOut EXCEPT !.pc = "trigger",
                                      !.dest_suffix = IF enq.dest_suffix = <<>>
                                                        THEN enq.dataset ELSE enq.dest_suffix]
  /\ UNCHANGED enq
  /\ UNCHANGED <<upVars, ufVars, pgVars, dlVars, jobVars, walkVars, pqVars>>

\* enqueue, lines 46-58: trigger_download_job is called and answered; an
\* exception that leaves the view is answered 500 by Flask
EnqueueTrigger ==
  /\ enqOut.pc = "trigger"
  /\ IF ~Binds
       THEN enqOut' = [enqOut EXCEPT !.pc = "done",
                                      !.response = Response(500, [error |-> "TypeError"])]
       ELSE LET res == TriggerResult(enq.client)
            IN enqOut' = [enqOut EXCEPT
                 !.pc = "done",
                 !.trigger_calls = @ + 1,
                 !.run_job_calls = @ + 1,
                 !.response =
                   IF "raised" \in DOMAIN res THEN Response(500, [error |-> "AttributeError"])
                   ELSE IF ~res.ok THEN Response(500, [error |-> "status"])
                   ELSE Response(202, [status |-> "enqueued", execution |-> res.operation_id])]
  /\ UNCHANGED enq
  /\ UNCHANGED <<upVars, ufVars, pgVars, dlVars, jobVars, walkVars, pqVars>>

----------------------------------------------------------------------------
(* Publisher.publish *)

Message(dataset, destination) == [dataset |-> dataset, destination |-> destination]

\* the Status publish returns for what the Pub/Sub client does
PublishStatus(outcome) == IF outcome = "ok" THEN "ok" ELSE "error"

\* variant: only TimeoutError and NotFound are caught
PublishRaises_OtherUncaught(outcome) == outcome \notin {"ok", "timeout", "notfound"}

\* the except clauses end with 'except Exception': nothing the client raises
\* leaves publish
PublishRaises(outcome) == FALSE

----------------------------------------------------------------------------
(* The orchestrators: download_kaggle_dataset_concurrently,                *)
(* download_kaggle_dataset_with_cli and hf_downloader.download_dataset     *)

\* repo_id.split('/') has exactly two components
ValidRepoId(r) == Len(r) = 2

\* the files named by the listing
ListedNames == {all_files[i] : i \in 1..Len(all_files)}

\* `if not all_files`: None and the empty list alike
NoFiles(ret) == ret.kind = "null" \/ ret.files = <<>>

\* what each entry point hands to the upload step
UploadArgs(v, r) ==
  [bucket |-> GCS_BUCKET, repo_id |-> r,
   dest_prefix |-> IF v = "hf" THEN GCS_PREFIX ELSE GCS_KAGGLE_PREFIX]

\* the entry points whose upload step is a call of upload_files (the third
\* one carries its own copy of the walk and of the pool)
CallsUploadFiles(v) == v \in {"concurrent", "cli"}

\* the entry points that call publisher.publish after the upload
Publishes(v) == v = "cli"

JobEnd(result) ==
  /\ j_pc' = "end"
  /\ j_result' = result

\* variant: the module-level client is taken to exist
ApiMissing_Never(hasCreds) == FALSE

\* _kaggle_api is None: the module creates the client only when both
\* KAGGLE_USERNAME and KAGGLE_KEY are set
ApiMissing(hasCreds) == ~hasCreds

\* download_kaggle_dataset_concurrently up to the listing call
KaggleStart ==
  /\ variant = "concurrent"
  /\ j_pc = "start"
  /\ IF ApiMissing(creds)
       THEN /\ JobEnd("raised")
            /\ UNCHANGED <<dirCreated, pg_pc>>
       ELSE /\ dirCreated' = TRUE
            /\ IF ~ValidRepoId(repo_id)
                 THEN JobEnd("raised") /\ UNCHANGED pg_pc
                 ELSE /\ j_pc' = "listing"
                      /\ pg_pc' = "call"
                      /\ UNCHANGED j_result
  /\ UNCHANGED <<variant, repo_id, fetchOutcome, fetched, pubOutcome, published, pub_status>>
  /\ UNCHANGED <<creds, srv, retries, page_token, all_files, requests, pg_slept, pg_ret>>
  /\ UNCHANGED <<upVars, ufVars, dlVars>>
  /\ UNCHANGED <<walkVars, enqVars, pqVars>>

\* the listing has returned: stop when there are no files, else submit one
\* download per file name
KaggleListed ==
  /\ variant = "concurrent"
  /\ j_pc = "listing"
  /\ pg_pc \in {"DONE", "FAILED"}
  /\ IF NoFiles(pg_ret)
       THEN /\ JobEnd("returned")
            /\ UNCHANGED <<dl, dl_yielded>>
       ELSE /\ j_pc' = "downloading"
            /\ dl' = [f \in ListedNames |-> NewDownload]
            /\ dl_yielded' = [f \in ListedNames |-> 0]
            /\ UNCHANGED j_result
  /\ UNCHANGED <<variant, repo_id, dirCreated, fetchOutcome, fetched, pubOutcome,
                 published, pub_status>>
  /\ UNCHANGED <<dlScript, max_workers>>
  /\ UNCHANGED <<upVars, ufVars, pgVars>>
  /\ UNCHANGED <<walkVars, enqVars, pqVars>>

\* variant: the loop over as_completed is left at the first result
DownloadsJoined_FirstCompleted == \E f \in Downloads : dl_yielded[f] >= 1 /\ dl[f].pc = "done"

\* the as_completed loop has yielded every future and the with block has
\* shut the pool down
DownloadsJoined == \A f \in Downloads : dl_yielded[f] >= 1 /\ dl[f].pc = "done"

\* every download future was yielded and the pool is shut down: call upload_files
KaggleDownloaded ==
  /\ variant = "concurrent"
  /\ j_pc = "downloading"
  /\ DownloadsJoined
  /\ j_pc' = "uploading"
  /\ uf_pc' = "call"
  /\ uf_args' = UploadArgs(variant, repo_id)
  /\ UNCHANGED <<variant, j_result, repo_id, dirCreated, fetchOutcome, fetched,
                 pubOutcome, published, pub_status>>
  /\ UNCHANGED <<upload_worker, to_upload, yielded, logged, uf_ret, staged, runs>>
  /\ UNCHANGED <<upVars, pgVars, dlVars>>
  /\ UNCHANGED <<walkVars, enqVars, pqVars>>

\* download_kaggle_dataset_with_cli up to the upload_files call: credentials
\* file, makedirs, the kaggle CLI subprocess (whose exit status is not checked)
CliStart ==
  /\ variant = "cli"
  /\ j_pc = "start"
  /\ IF ~creds
       THEN /\ JobEnd("raised")
            /\ UNCHANGED <<dirCreated, staged, uf_pc, uf_args>>
       ELSE /\ dirCreated' = TRUE
            /\ staged' = IF fetchOutcome = "ok" THEN fetched ELSE {}
            /\ j_pc' = "uploading"
            /\ uf_pc' = "call"
            /\ uf_args' = UploadArgs(variant, repo_id)
            /\ UNCHANGED j_result
  /\ UNCHANGED <<variant, repo_id, fetchOutcome, fetched, pubOutcome, published, pub_status>>
  /\ UNCHANGED <<upload_worker, to_upload, yielded, logged, uf_ret, runs>>
  /\ UNCHANGED <<upVars, pgVars, dlVars>>
  /\ UNCHANGED <<walkVars, enqVars, pqVars>>

\* hf_downloader.download_dataset up to its walk: makedirs, the datasets
\* builder, download_and_prepare, whose exception is logged and re-raised
\* variant: the except block logs and goes on
FetchAborts_LogsOnly(outcome) == FALSE

\* builder.download_and_prepare raised: the except block logs and re-raises
FetchAborts(outcome) == outcome # "ok"

HfStart ==
  /\ variant = "hf"
  /\ j_pc = "start"
  /\ dirCreated' = TRUE
  /\ IF FetchAborts(fetchOutcome)
       THEN /\ JobEnd("raised")
            /\ UNCHANGED <<staged, uf_pc, uf_args>>
       ELSE /\ staged' = fetched
            /\ j_pc' = "uploading"
            /\ uf_pc' = "call"
            /\ uf_args' = UploadArgs(variant, repo_id)
            /\ UNCHANGED j_result
  /\ UNCHANGED <<variant, repo_id, fetchOutcome, fetched, pubOutcome, published, pub_status>>
  /\ UNCHANGED <<upload_worker, to_upload, yielded, logged, uf_ret, runs>>
  /\ UNCHANGED <<upVars, pgVars, dlVars>>
  /\ UNCHANGED <<walkVars, enqVars, pqVars>>

\* the upload step is over: re-raise its exception, else publish where the
\* entry point does so, and return
JobUploaded ==
  /\ j_pc = "uploading"
  /\ uf_pc \in {"returned", "raised"}
  /\ IF uf_pc = "raised"
       THEN /\ JobEnd("raised")
            /\ UNCHANGED <<published, pub_status>>
       ELSE IF Publishes(variant)
              THEN /\ published' = Append(published, Message(repo_id, uf_ret))
                   /\ IF PublishRaises(pubOutcome)
                        THEN /\ JobEnd("raised")
                             /\ UNCHANGED pub_status
                        ELSE /\ JobEnd("returned")
                             /\ pub_status' = PublishStatus(pubOutcome)
              ELSE /\ JobEnd("returned")
                   /\ UNCHANGED <<published, pub_status>>
  /\ UNCHANGED <<variant, repo_id, dirCreated, fetchOutcome, fetched, pubOutcome>>
  /\ UNCHANGED <<upVars, ufVars, pgVars, dlVars>>
  /\ UNCHANGED <<walkVars, enqVars, pqVars>>

----------------------------------------------------------------------------
(* check_datasets_server_parquet_status (util/huggingface.py) *)

\* a value that may be None: NoneVal, or Some(v)
Some(v) == <<v>>

\* a key of a JSON object that should hold a list: whether the key is there,
\* whether its value is a list, and the list
NoKey == [has |-> FALSE, list |-> FALSE, items |-> <<>>]
NotAList == [has |-> TRUE, list |-> FALSE, items |-> <<>>]
ListKey(items) == [has |-> TRUE, list |-> TRUE, items |-> items]

\* a 'partial' key: whether it is there, whether its value is a bool, and
\* the truth value of its value
NoFlag == [has |-> FALSE, bool |-> FALSE, truth |-> FALSE]

\* `"k" in x and isinstance(x["k"], list) and x["k"]`
NonEmptyList(key) == key.has /\ key.list /\ key.items # <<>>

\* an element of 'configurations' that is no container: `"k" in x` raises
NumberConfig == [kind |-> "number", parquet_files |-> NoKey, partial |-> NoFlag]

\* the status dictionary at entry
NewStatus ==
  [available |-> FALSE, is_partial |-> NoneVal, configurations |-> NoneVal,
   error_message |-> NoneVal, http_status_code |-> NoneVal]

\* a branch that reports an error and sets available to False
Unavailable(st, message) ==
  [st EXCEPT !.available = FALSE, !.error_message = Some(message)]

\* `except Exception` (and `except RequestException`, `except ValueError`):
\* only the message is set
Caught(st, message) == [st EXCEPT !.error_message = Some(message)]

\* the loop over data["configurations"] that looks for a 'partial' flag
RECURSIVE PartialScan(_, _, _)
PartialScan(cfgs, i, allFlag) ==
  IF i > Len(cfgs) THEN [raised |-> FALSE, any |-> FALSE, all |-> allFlag]
  ELSE IF cfgs[i].kind # "dict" THEN [raised |-> TRUE, any |-> FALSE, all |-> allFlag]
  ELSE IF cfgs[i].partial.has /\ cfgs[i].partial.bool
    THEN IF cfgs[i].partial.truth
           THEN [raised |-> FALSE, any |-> TRUE, all |-> allFlag]
           ELSE PartialScan(cfgs, i + 1, allFlag)
    ELSE PartialScan(cfgs, i + 1, FALSE)

\* the loop over status["configurations"] that sets has_actual_files
RECURSIVE FilesScan(_, _)
FilesScan(cfgs, i) ==
  IF i > Len(cfgs) THEN "none"
  ELSE IF cfgs[i].kind # "dict" THEN "raised"
  ELSE IF NonEmptyList(cfgs[i].parquet_files) THEN "found"
  ELSE FilesScan(cfgs, i + 1)

\* the branch for a non-empty 'configurations' list
ConfigurationsBranch(st, data, show) ==
  LET cfgs == data.configurations.items
      s1 == [st EXCEPT !.available = TRUE,
                       !.configurations = IF show THEN Some(cfgs) ELSE @]
      scan == PartialScan(cfgs, 1, TRUE)
      s2 == IF data.partial.has
              THEN [s1 EXCEPT !.is_partial = Some(data.partial.truth)]
              ELSE [s1 EXCEPT !.is_partial =
                      IF scan.all \/ scan.any THEN Some(scan.any) ELSE NoneVal]
  IN IF ~data.partial.has /\ scan.raised
       THEN Caught(s1, "An unexpected error occurred")
     ELSE IF s2.configurations = NoneVal
       THEN Caught(s2, "An unexpected error occurred")
     ELSE LET found == FilesScan(s2.configurations[1], 1)
          IN CASE found = "raised" -> Caught(s2, "An unexpected error occurred")
               [] found = "found"  -> s2
               [] OTHER -> Unavailable(s2, "Parquet configurations found, but no Parquet files listed within them.")

\* the branch for a top-level 'parquet_files' list
SimpleBranch(st, data, show) ==
  LET files == data.parquet_files.items
      s1 == [st EXCEPT
               !.available = files # <<>>,
               !.configurations =
                 IF show THEN Some(<<[kind |-> "dict", parquet_files |-> ListKey(files),
                                      partial |-> NoFlag]>>)
                         ELSE @,
               !.is_partial = IF data.partial.has /\ data.partial.bool
                                THEN Some(data.partial.truth) ELSE NoneVal]
  IN IF files = <<>> /\ s1.available
       THEN Unavailable(s1, "Parquet files list is empty.")
       ELSE s1

\* the handling of the decoded JSON body
Inspect(st, data, show) ==
  IF data.kind # "dict" THEN Caught(st, "An unexpected error occurred")
  ELSE IF data.error THEN Unavailable(st, "API returned an error")
  ELSE IF NonEmptyList(data.configurations) THEN ConfigurationsBranch(st, data, show)
  ELSE IF data.parquet_files.has /\ data.parquet_files.list THEN SimpleBranch(st, data, show)
  ELSE Unavailable(st, "No Parquet configurations or files found in the response, or unexpected response structure.")

check_datasets_server_parquet_status(response, show) ==
  IF response.kind = "network"
    THEN Caught(NewStatus, "API request failed (e.g., network issue)")
  ELSE LET st == [NewStatus EXCEPT !.http_status_code = Some(response.code)]
       IN CASE response.code = 404 -> Unavailable(st, "not found or no Parquet conversion available via datasets-server (404 error).")
            [] response.code = 500 -> Unavailable(st, "datasets-server internal error (500 error).")
            [] response.code \notin {404, 500} /\ response.code >= 400 ->
                 Unavailable(st, "HTTP error during API request")
            [] response.code < 400 /\ response.kind = "nojson" ->
                 Caught(st, "API request failed (e.g., network issue)")
            [] OTHER -> Inspect(st, response.data, show)

\* one call
CheckParquetStatus ==
  /\ pqOut.pc = "call"
  /\ pqOut' = [pc |-> "returned",
               status |-> check_datasets_server_parquet_status(pq.response, pq.show_files)]
  /\ UNCHANGED pq
  /\ UNCHANGED <<upVars, ufVars, pgVars, dlVars, jobVars, walkVars, enqVars>>

----------------------------------------------------------------------------
(* Parts of the initial state *)

NoArgs == [bucket |-> "", repo_id |-> <<>>, dest_prefix |-> ""]

UploadOff ==
  /\ up = <<>>
  /\ max_retries = <<>>
  /\ blobFails = <<>>
  /\ h_pc = "none"
  /\ store = {}
  /\ objects = <<>>

UploadFilesOff ==
  /\ upload_worker = 1
  /\ uf_pc = "off"
  /\ to_upload = <<>>
  /\ yielded = <<>>
  /\ logged = {}
  /\ uf_ret = NoneVal
  /\ uf_args = NoArgs
  /\ staged = {}
  /\ runs = 0

PagerOff ==
  /\ creds = TRUE
  /\ srv = <<>>
  /\ pg_pc = "off"
  /\ retries = 0
  /\ page_token = 0
  /\ all_files = <<>>
  /\ requests = <<>>
  /\ pg_slept = <<>>
  /\ pg_ret = Pending

DownloadOff ==
  /\ dl = <<>>
  /\ dlScript = <<>>
  /\ max_workers = 1
  /\ dl_yielded = <<>>

JobOff ==
  /\ variant = "none"
  /\ j_pc = "off"
  /\ j_result = "running"
  /\ repo_id = <<>>
  /\ dirCreated = FALSE
  /\ fetchOutcome = "ok"
  /\ fetched = {}
  /\ pubOutcome = "ok"
  /\ published = <<>>
  /\ pub_status = NoneVal

WalkOff ==
  /\ walkIn = <<>>
  /\ walk = [pc |-> "off", pending |-> <<>>, out |-> <<>>]

EnqueueOff ==
  /\ enq = <<>>
  /\ enqOut = [pc |-> "off"]

ParquetOff ==
  /\ pq = <<>>
  /\ pqOut = [pc |-> "off"]

----------------------------------------------------------------------------
(* Specification of a single _upload_one call *)

InitUploadOne ==
  /\ \E m \in 0..MaxRetriesArg : max_retries = [f \in {1} |-> m]
  /\ \E n \in 0..MaxFailN : blobFails = [f \in {1} |-> n]
  /\ up = [f \in {1} |-> NewTask]
  /\ h_pc = "call"
  /\ store = {}
  /\ objects = <<>>
  /\ UploadFilesOff
  /\ PagerOff
  /\ DownloadOff
  /\ JobOff
  /\ WalkOff
  /\ EnqueueOff
  /\ ParquetOff

NextUploadOne ==
  \/ CallUploadOne
  \/ \E f \in Tasks : UploadAttempt(f)
  \/ \E f \in Tasks : UploadBackoff(f)

SpecUploadOne == InitUploadOne /\ [][NextUploadOne]_vars

----------------------------------------------------------------------------
(* Specification of one upload_files call on a staged tree *)

InitBulk ==
  /\ \E n \in 0..MaxFiles : staged = 1..n
  /\ blobFails \in [1..MaxFiles -> BlobScripts]
  /\ upload_worker \in 1..MaxWorkers
  /\ up = <<>>
  /\ max_retries = <<>>
  /\ yielded = <<>>
  /\ h_pc = "none"
  /\ uf_pc = "call"
  /\ uf_args = [bucket |-> GCS_BUCKET, repo_id |-> <<"owner", "ds">>,
                dest_prefix |-> GCS_KAGGLE_PREFIX]
  /\ to_upload = <<>>
  /\ logged = {}
  /\ store = {}
  /\ objects = <<>>
  /\ runs = 0
  /\ uf_ret = NoneVal
  /\ PagerOff
  /\ DownloadOff
  /\ JobOff
  /\ WalkOff
  /\ EnqueueOff
  /\ ParquetOff

NextBulk ==
  \/ UploadFilesCall
  \/ PoolStart
  \/ \E f \in Tasks : UploadAttempt(f)
  \/ \E f \in Tasks : UploadBackoff(f)
  \/ \E f \in Tasks : Collect(f)
  \/ UploadFilesReturn
  \/ UploadFilesRerun

SpecBulk == InitBulk /\ [][NextBulk]_vars

\* the steps of one upload_files run: the threads of the pool and the caller
BulkProgress ==
  \/ UploadFilesCall
  \/ PoolStart
  \/ \E f \in Tasks : UploadAttempt(f)
  \/ \E f \in Tasks : UploadBackoff(f)
  \/ \E f \in Tasks : Collect(f)
  \/ UploadFilesReturn

\* one upload_files run over a small batch
InitBulkLive ==
  /\ \E n \in 0..LiveFiles : staged = 1..n
  /\ blobFails \in [1..LiveFiles -> BlobScripts]
  /\ upload_worker \in 1..MaxWorkers
  /\ up = <<>>
  /\ max_retries = <<>>
  /\ yielded = <<>>
  /\ h_pc = "none"
  /\ uf_pc = "call"
  /\ uf_args = [bucket |-> GCS_BUCKET, repo_id |-> <<"owner", "ds">>,
                dest_prefix |-> GCS_KAGGLE_PREFIX]
  /\ to_upload = <<>>
  /\ logged = {}
  /\ store = {}
  /\ objects = <<>>
  /\ runs = 0
  /\ uf_ret = NoneVal
  /\ PagerOff
  /\ DownloadOff
  /\ JobOff
  /\ WalkOff
  /\ EnqueueOff
  /\ ParquetOff

\* every upload attempt and every sleep ends and a runnable thread gets to run
SpecBulkLive == InitBulkLive /\ [][BulkProgress]_vars /\ WF_vars(BulkProgress)

----------------------------------------------------------------------------
(* Specification of one get_all_dataset_files call against a scripted server *)

PageScripts == [rate : 0..MaxRate, final : {"ok", "ok_empty", "http404", "timeout"}]

InitPager ==
  /\ creds \in BOOLEAN
  /\ \E n \in 1..MaxPages : srv \in [1..n -> PageScripts]
  /\ pg_pc = "call"
  /\ retries = 0
  /\ page_token = 0
  /\ all_files = <<>>
  /\ requests = <<>>
  /\ pg_slept = <<>>
  /\ pg_ret = Pending
  /\ UploadOff
  /\ UploadFilesOff
  /\ DownloadOff
  /\ JobOff
  /\ WalkOff
  /\ EnqueueOff
  /\ ParquetOff

NextPager ==
  \/ PagerCall
  \/ PagerRequest
  \/ PagerBackoff

SpecPager == InitPager /\ [][NextPager]_vars

\* the call runs in one thread: every request is answered and every sleep
\* ends, so a pending step is eventually taken
SpecPagerLive == InitPager /\ [][NextPager]_vars /\ WF_vars(NextPager)

----------------------------------------------------------------------------
(* Specification of one run of an orchestrator *)

OkPage == [rate |-> 0, final |-> "ok"]
SlowPage == [rate |-> 1, final |-> "ok"]
DeniedPage == [rate |-> 0, final |-> "http404"]
LimitedPage == [rate |-> MAX_RETRIES, final |-> "ok"]

\* the listing servers an orchestrator run is tried against
JobServers ==
  { <<OkPage>>, <<SlowPage, OkPage>>, <<DeniedPage>>, <<LimitedPage>>,
    <<OkPage, LimitedPage>>, <<OkPage, DeniedPage>> }

\* the files such a server can list
JobFiles == {11, 12, 21}

\* per-file behaviours of dataset_download_file: works, fails for good, is
\* rate limited once, is rate limited on every attempt
DownloadScripts ==
  { [rate |-> 0, final |-> "ok"], [rate |-> 0, final |-> "error"],
    [rate |-> 1, final |-> "ok"], [rate |-> DL_MAX_RETRIES, final |-> "ok"] }

JobBlobScripts == {0, DefaultMaxRetries}

RepoIds == { <<"owner", "ds">>, <<"ownerds">> }

PublishOutcomes == {"ok", "timeout", "notfound", "error"}

JobCommonInit ==
  /\ up = <<>>
  /\ max_retries = <<>>
  /\ h_pc = "none"
  /\ store = {}
  /\ objects = <<>>
  /\ runs = 0
  /\ WalkOff
  /\ EnqueueOff
  /\ ParquetOff
  /\ upload_worker \in 1..MaxWorkers
  /\ uf_pc = "off"
  /\ to_upload = <<>>
  /\ yielded = <<>>
  /\ logged = {}
  /\ uf_ret = NoneVal
  /\ uf_args = NoArgs
  /\ staged = {}
  /\ pg_pc = "off"
  /\ retries = 0
  /\ page_token = 0
  /\ all_files = <<>>
  /\ requests = <<>>
  /\ pg_slept = <<>>
  /\ pg_ret = Pending
  /\ dl = <<>>
  /\ dl_yielded = <<>>
  /\ j_pc = "start"
  /\ j_result = "running"
  /\ dirCreated = FALSE
  /\ published = <<>>
  /\ pub_status = NoneVal

InitKaggle ==
  /\ variant = "concurrent"
  /\ creds \in BOOLEAN
  /\ repo_id \in RepoIds
  /\ srv \in JobServers
  /\ dlScript \in [JobFiles -> DownloadScripts]
  /\ blobFails \in [JobFiles -> JobBlobScripts]
  /\ max_workers \in 1..MaxWorkers
  /\ fetchOutcome = "ok"
  /\ fetched = {}
  /\ pubOutcome = "ok"

InitFetch ==
  /\ variant \in {"cli", "hf"}
  /\ creds \in BOOLEAN
  /\ repo_id = <<"owner", "ds">>
  /\ srv = <<>>
  /\ dlScript = <<>>
  /\ max_workers = 1
  /\ fetchOutcome \in {"ok", "fail"}
  /\ \E n \in 0..2 : fetched = 1..n
  /\ blobFails \in [1..2 -> JobBlobScripts]
  /\ pubOutcome \in PublishOutcomes

InitJob == JobCommonInit /\ (InitKaggle \/ InitFetch)

NextJob ==
  \/ KaggleStart
  \/ PagerCall
  \/ PagerRequest
  \/ PagerBackoff
  \/ KaggleListed
  \/ DlStart
  \/ \E f \in Downloads : DlAttempt(f)
  \/ \E f \in Downloads : DlBackoff(f)
  \/ \E f \in Downloads : DlCollect(f)
  \/ KaggleDownloaded
  \/ CliStart
  \/ HfStart
  \/ UploadFilesCall
  \/ PoolStart
  \/ \E f \in Tasks : UploadAttempt(f)
  \/ \E f \in Tasks : UploadBackoff(f)
  \/ \E f \in Tasks : Collect(f)
  \/ UploadFilesReturn
  \/ JobUploaded

SpecJob == InitJob /\ [][NextJob]_vars

\* an orchestrator run, or a direct get_all_dataset_files call
SpecKaggleCreds == (InitJob \/ InitPager) /\ [][NextJob]_vars

----------------------------------------------------------------------------
(* Specification of the walk of upload_files *)

\* the files a staging directory may hold
WalkFiles == {
  [dir |-> <<>>, name |-> <<"a", ".", "p", "a", "r", "q", "u", "e", "t">>],
  [dir |-> <<>>, name |-> <<"b", ".", "c", "s", "v">>],
  [dir |-> <<<<"d", "a", "t", "a">>>>, name |-> <<"c", ".", "p", "a", "r", "q", "u", "e", "t">>],
  [dir |-> <<<<".", "g", "i", "t">>>>, name |-> <<"d", ".", "p", "a", "r", "q", "u", "e", "t">>],
  [dir |-> <<<<"T", "m", "p", "_", "x">>>>, name |-> <<"e", ".", "p", "a", "r", "q", "u", "e", "t">>],
  [dir |-> <<<<"d", "a", "t", "a">>, <<"T", "E", "M", "P">>>>, name |-> <<"f", ".", "c", "s", "v">>],
  [dir |-> <<<<"_", "_", "p", "y", "c", "a", "c", "h", "e", "_", "_">>>>, name |-> <<"g", ".", "c", "s", "v">>],
  [dir |-> <<<<"a", "t", "t", "e", "m", "p", "t">>>>, name |-> <<"h", ".", "P", "A", "R", "Q", "U", "E", "T">>]
}

Sources == {<<"/", "m", "n", "t", "/", "f", "s", "/", "d", "s">>, <<"/", "m", "n", "t", "/", "f", "s", "/", "t", "m", "p">>}
DestPrefixes == {<<>>, <<"k", "a", "g", "g", "l", "e">>, <<"/", "k", "a", "g", "g", "l", "e">>, <<"k", "a", "g", "g", "l", "e", "/">>}
WalkRepoIds == {<<"o", "/", "d">>, <<"/", "o", "/", "d">>}

InitWalk ==
  /\ walkIn \in [source : Sources, tree : SUBSET WalkFiles, dest_prefix : DestPrefixes,
                 repo_id : WalkRepoIds, parquet_only : BOOLEAN]
  /\ walk = [pc |-> "walking", pending |-> << <<>> >>, out |-> <<>>]
  /\ UploadOff
  /\ UploadFilesOff
  /\ PagerOff
  /\ DownloadOff
  /\ JobOff
  /\ EnqueueOff
  /\ ParquetOff

NextWalk ==
  \/ WalkVisit
  \/ WalkDone

SpecWalk == InitWalk /\ [][NextWalk]_vars

----------------------------------------------------------------------------
(* Specification of one POST /enqueue *)

EnqDatasets == {<<"o", "/", "d">>, <<"o", "d">>, <<>>, <<" ">>, <<"o", "/", "d", "/", "e">>, <<"o", "!", "/", "d">>, <<"/", "d">>, <<"O", "_", "1", "/", "d", "-", "2">>}
EnqSources == {<<"k", "a", "g", "g", "l", "e">>, <<"h", "u", "g", "g", "i", "n", "g", "f", "a", "c", "e">>, <<"h", "f">>, <<>>}
EnqSuffixes == {<<>>, <<"x", "/", "y">>, <<"/", "x">>, <<"x", "/">>, <<"x", "/", "/", "y">>, <<".", ".", "/", "x">>, <<"x">>}
JobsClients == {"ok", "api_error", "retry_error", "value_error"}

InitEnqueue ==
  /\ enq \in [dataset : EnqDatasets, source : EnqSources, dest_suffix : EnqSuffixes,
              client : JobsClients]
  /\ enqOut = [pc |-> "request", dest_suffix |-> <<>>, trigger_calls |-> 0,
               run_job_calls |-> 0, response |-> Response(0, <<>>)]
  /\ UploadOff
  /\ UploadFilesOff
  /\ PagerOff
  /\ DownloadOff
  /\ JobOff
  /\ WalkOff
  /\ ParquetOff

NextEnqueue ==
  \/ EnqueueValidate
  \/ EnqueueTrigger

SpecEnqueue == InitEnqueue /\ [][NextEnqueue]_vars

----------------------------------------------------------------------------
(* Specification of one check_datasets_server_parquet_status call against *)
(* a scripted datasets server                                             *)

Flags == {NoFlag} \cup [has : {TRUE}, bool : BOOLEAN, truth : BOOLEAN]
FileLists == {[i \in 1..n |-> "parquet"] : n \in 0..MaxParquetFiles}
FileKeys == {NoKey, NotAList} \cup {ListKey(l) : l \in FileLists}
Configs == [kind : {"dict"}, parquet_files : FileKeys, partial : Flags] \cup {NumberConfig}
ConfigLists == UNION {[1..n -> Configs] : n \in 0..MaxConfigs}
ConfigKeys == {NoKey, NotAList} \cup {ListKey(l) : l \in ConfigLists}
NullBody == [kind |-> "null", error |-> FALSE, configurations |-> NoKey,
             parquet_files |-> NoKey, partial |-> NoFlag]
Bodies ==
  [kind : {"dict"}, error : BOOLEAN, configurations : ConfigKeys,
   parquet_files : FileKeys, partial : Flags] \cup {NullBody}
Responses ==
  {[kind |-> "network", code |-> 0, data |-> NullBody]}
    \cup [kind : {"nojson"}, code : {200, 403, 404, 500}, data : {NullBody}]
    \cup [kind : {"json"}, code : {200}, data : Bodies]

InitParquet ==
  /\ pq \in [response : Responses, show_files : BOOLEAN]
  /\ pqOut = [pc |-> "call", status |-> NewStatus]
  /\ UploadOff
  /\ UploadFilesOff
  /\ PagerOff
  /\ DownloadOff
  /\ JobOff
  /\ WalkOff
  /\ EnqueueOff

NextParquet == CheckParquetStatus

SpecParquet == InitParquet /\ [][NextParquet]_vars

----------------------------------------------------------------------------
(* Properties of _upload_one *)

AlwaysFails(f) == blobFails[f] >= max_retries[f]

\* C1: when the upload fails on its first N attempts and succeeds on the next
\* one and max_retries > N, _upload_one never raises, never makes more than
\* N+1 attempts, and ends returned with exactly N+1 attempts made.
C1_SucceedsAfterNPlusOneAttempts ==
  (h_pc = "called" /\ max_retries[1] > blobFails[1]) =>
    /\ up[1].pc # "raised"
    /\ up[1].calls <= blobFails[1] + 1
    /\ (Finished(1) => up[1].pc = "returned" /\ up[1].calls = blobFails[1] + 1)

C1_Witness ==
  /\ h_pc = "called"
  /\ blobFails[1] = 2
  /\ max_retries[1] = 3
  /\ up[1].pc = "returned"
  /\ up[1].calls = 3

\* C2: when the upload fails on its first N attempts and 0 <= max_retries <= N,
\* _upload_one ends raised after exactly max_retries attempts, also for
\* max_retries = 0.
C2_FailsAfterMaxRetriesAttempts ==
  (h_pc = "called" /\ max_retries[1] <= blobFails[1] /\ Finished(1)) =>
    /\ up[1].pc = "raised"
    /\ up[1].calls = max_retries[1]

\* C23: the i-th sleep of an _upload_one call (i from 0) lasts 2^i seconds and
\* follows the failed attempt number i when another attempt remains; there is
\* no sleep after the last failed attempt nor after a successful attempt.
C23_UploaderBackoffSchedule ==
  \A f \in DOMAIN up :
    LET t == up[f] IN
      /\ \A i \in 1..Len(t.slept) : t.slept[i] = Pow2(i - 1)
      /\ t.pc \in {"attempt", "sleep"} => Len(t.slept) = t.calls
      /\ (t.pc \in {"returned", "raised"} /\ t.calls > 0) => Len(t.slept) = t.calls - 1
      /\ t.calls = 0 => t.slept = <<>>
      /\ t.pc = "sleep" => t.calls < max_retries[f]

C23_Witness ==
  /\ h_pc = "called"
  /\ max_retries[1] = 4
  /\ up[1].pc = "raised"
  /\ up[1].calls = 4
  /\ up[1].slept = <<1, 2, 4>>

----------------------------------------------------------------------------
(* Properties of get_all_dataset_files *)

RECURSIVE ConcatPages(_)
ConcatPages(n) == IF n = 0 THEN <<>> ELSE ConcatPages(n - 1) \o PageItems(n)

PagerEnded == pg_pc \in {"DONE", "FAILED"}
Requested(p) == CountFor(requests, p) > 0
RateLimitedThenOk(p) == srv[p].rate < MAX_RETRIES /\ srv[p].final = "ok"
RateLimitedForever(p) == srv[p].rate >= MAX_RETRIES
HardError(p) == srv[p].rate < MAX_RETRIES /\ srv[p].final = "http404"

\* C3: a page answered with k < 5 times 429 and then success gets exactly k+1
\* requests, and when every page is such a page the pager ends DONE and returns
\* the items of all pages concatenated in page order.
C3_BoundedRateLimiting ==
  /\ \A p \in 1..NumPages : RateLimitedThenOk(p) =>
       /\ CountFor(requests, p) <= srv[p].rate + 1
       /\ (PagerEnded /\ Requested(p) => CountFor(requests, p) = srv[p].rate + 1)
  /\ (creds /\ PagerEnded /\ \A p \in 1..NumPages : RateLimitedThenOk(p)) =>
       /\ pg_pc = "DONE"
       /\ pg_ret = ReturnList(ConcatPages(NumPages))

C3_Witness ==
  /\ pg_pc = "DONE"
  /\ NumPages = 2
  /\ srv[1].rate = 4
  /\ srv[2].rate = 1
  /\ Len(requests) = 7
  /\ pg_ret.files = PageItems(1) \o PageItems(2)

C4_WitnessFirstPage ==
  /\ pg_pc = "FAILED"
  /\ RateLimitedForever(1)
  /\ CountFor(requests, 1) = 5
  /\ pg_ret = ReturnList(<<>>)

\* C5: once a request for a page got an HTTP error other than 429, the pager
\* has returned null, that request is the last one issued, and no accumulated
\* item is returned.
C5_HardFailure ==
  \A p \in 1..NumPages :
    (HardError(p) /\ CountFor(requests, p) > srv[p].rate) =>
      /\ pg_pc = "FAILED"
      /\ pg_ret = ReturnNull
      /\ CountFor(requests, p) = srv[p].rate + 1
      /\ PageOf(requests[Len(requests)]) = p

C5_Witness ==
  /\ NumPages = 2
  /\ HardError(2)
  /\ CountFor(requests, 2) = srv[2].rate + 1
  /\ srv[2].rate = 1
  /\ all_files = PageItems(1)
  /\ pg_ret.kind = "null"

\* C21: while a page is being fetched the retry counter equals the number of
\* 429 answers received for that page alone, and a page answered with 4 times
\* 429 and then success gets exactly 5 requests and delivers its items,
\* whatever the earlier pages received.
FullBudgetPage(p) ==
  srv[p].rate = MAX_RETRIES - 1 /\ srv[p].final \in {"ok", "ok_empty"}

C21_PerPageRetryBudget ==
  /\ pg_pc = "FETCHING" => retries = CountFor(requests, PageOf(page_token))
  /\ pg_pc = "BACKOFF" => retries = CountFor(requests, PageOf(page_token))
  /\ \A p \in 1..NumPages :
       (FullBudgetPage(p) /\ Requested(p) /\ PagerEnded) =>
         /\ CountFor(requests, p) = MAX_RETRIES
         /\ pg_ret.kind = "list" => \A i \in 1..ItemsOnPage(p) :
              \E k \in 1..Len(pg_ret.files) : pg_ret.files[k] = PageItems(p)[i]
         /\ (p = NumPages \/ srv[p].final = "ok_empty") => pg_pc = "DONE"

C21_Witness ==
  /\ pg_pc = "DONE"
  /\ NumPages = 2
  /\ FullBudgetPage(1)
  /\ FullBudgetPage(2)
  /\ Len(requests) = 2 * MAX_RETRIES
  /\ Len(pg_ret.files) = ItemsOnPage(1) + ItemsOnPage(2)

\* the 429 answers received so far for page p, and those followed by a sleep
Got429(p) == IF CountFor(requests, p) < srv[p].rate THEN CountFor(requests, p) ELSE srv[p].rate
SleepsFor(p) == IF Got429(p) < MAX_RETRIES THEN Got429(p) ELSE MAX_RETRIES - 1
RECURSIVE SleepsUpTo(_)
SleepsUpTo(p) == IF p = 0 THEN 0 ELSE SleepsUpTo(p - 1) + SleepsFor(p)

\* C22: the sleep after a 429 lasts BACKOFF_FACTOR * 2^c seconds, c being the
\* page's retry counter before the 429 was counted (1, 2, 4, 8 for one page),
\* and the 429 that exhausts the budget is followed by no sleep.
C22_PagerBackoffDuration ==
  /\ pg_pc = "BACKOFF" =>
       pg_slept[Len(pg_slept)] = BACKOFF_FACTOR * Pow2(retries - 1)
  /\ NumPages = 1 =>
       \A i \in 1..Len(pg_slept) : pg_slept[i] = BACKOFF_FACTOR * Pow2(i - 1)
  /\ Len(pg_slept) = SleepsUpTo(NumPages)

\* C24: a listing request that met a rate-limit answer or a timeout is retried:
\* the pager ends in failure on a page troubled only by 429 answers and
\* timeouts after no fewer than MAX_RETRIES requests for that page.
C24_TransientErrorsRetried ==
  (creds /\ pg_pc = "FAILED") =>
    LET p == PageOf(page_token)
    IN srv[p].final # "http404" => CountFor(requests, p) >= MAX_RETRIES

\* the answer to the i-th request and, when it is a success, its next token
Answer(i) ==
  LET p == PageOf(requests[i])
  IN Respond(p, CountFor(SubSeq(requests, 1, i - 1), p))
Succeeded(i) == Answer(i) \in {"ok", "ok_empty"}
AnswerToken(i) ==
  LET p == PageOf(requests[i])
  IN IF Answer(i) = "ok_empty" THEN EmptyToken
     ELSE IF p < NumPages THEN p + 1 ELSE 0

\* C20: the first request carries no token; a request that follows a 429
\* carries the token of the request before it, and a request that follows a
\* success carries the token of that success; the pager is DONE exactly when
\* the last request was answered with a success whose next token is absent or
\* empty.
C20_TokenProtocol ==
  /\ requests # <<>> => requests[1] = 0
  /\ \A i \in 2..Len(requests) :
       /\ Answer(i - 1) = "429" => requests[i] = requests[i - 1]
       /\ Succeeded(i - 1) => requests[i] = AnswerToken(i - 1) /\ requests[i] \notin {0, EmptyToken}
       /\ Answer(i - 1) = "429" \/ Succeeded(i - 1)
  /\ pg_pc = "DONE" <=>
       /\ requests # <<>>
       /\ Succeeded(Len(requests))
       /\ AnswerToken(Len(requests)) \in {0, EmptyToken}

C20_Witness ==
  /\ pg_pc = "DONE"
  /\ NumPages = 2
  /\ srv[1].rate >= 1
  /\ srv[2].rate >= 2
  /\ srv[2].final = "ok_empty"
  /\ page_token = EmptyToken
  /\ Len(requests) = srv[1].rate + srv[2].rate + 2

\* C31: against a listing of finitely many pages, whatever 429 and error
\* answers the server gives, get_all_dataset_files issues at most 5 requests
\* for any page, ends in DONE or FAILED, and issues no request once there.
C31_PagerTerminates ==
  /\ [](\A p \in 1..NumPages : CountFor(requests, p) <= 5)
  /\ [][PagerEnded => requests' = requests /\ pg_pc' = pg_pc]_vars
  /\ <>PagerEnded

C31_Witness ==
  /\ pg_pc = "DONE"
  /\ NumPages = 2
  /\ CountFor(requests, 1) = 5
  /\ CountFor(requests, 2) = 5
  /\ pg_slept = <<2, 4, 8, 16, 2, 4, 8, 16>>

----------------------------------------------------------------------------
(* Properties of upload_files *)

\* C6: upload_files never raises because of a failed upload, and when it has
\* returned every file of the batch was attempted, and every file whose upload
\* does not fail on all its attempts is in the object store, whatever subset
\* of the other uploads failed.
C6_PartialFailureTolerated ==
  /\ uf_pc # "raised"
  /\ uf_pc = "returned" =>
       \A f \in Tasks :
         /\ up[f].calls >= 1
         /\ (~AlwaysFails(f) => up[f].pc = "returned" /\ f \in store)

C6_Witness ==
  /\ uf_pc = "returned"
  /\ Cardinality(Tasks) = 3
  /\ \E f \in Tasks : AlwaysFails(f) /\ up[f].pc = "raised" /\ f \in logged
  /\ Cardinality(store) = 2

\* C7: a future is yielded by as_completed at most once and only when its
\* upload has finished, and upload_files returns only when every submitted
\* file has finished and has been yielded exactly once.
Submitted == {to_upload[i] : i \in 1..Len(to_upload)}

C7_OneOutcomePerFile ==
  /\ \A f \in Tasks : yielded[f] <= 1 /\ (yielded[f] = 1 => Finished(f))
  /\ uf_pc \in {"pool", "returned"} => Tasks = Submitted
  /\ uf_pc = "returned" =>
       \A f \in Submitted : yielded[f] = 1 /\ Finished(f) /\ InFlight = {}

C7_Witness ==
  /\ uf_pc = "returned"
  /\ Cardinality(Submitted) = 3
  /\ logged # {}
  /\ store # {}
  /\ \A f \in Submitted : yielded[f] = 1

\* C16: whatever the submission order and the interleaving of the workers,
\* when upload_files has returned the store holds exactly the files whose
\* upload can succeed, each under its own key with its own content; this also
\* holds after a second run over the same files, in which every such file is
\* uploaded again to the key it already has, without error.
C16_CommutativeIdempotent ==
  uf_pc = "returned" =>
    /\ objects = [f \in {g \in staged : ~AlwaysFails(g)} |-> f]
    /\ \A f \in staged : ~AlwaysFails(f) => up[f].pc = "returned" /\ up[f].calls >= 1

C16_Witness ==
  /\ uf_pc = "returned"
  /\ runs = 2
  /\ Cardinality(staged) = 3
  /\ Cardinality(DOMAIN objects) = 2
  /\ \E f \in staged : ~AlwaysFails(f) /\ up[f].calls = 2

\* C27: no file of a batch gets more than 3 upload attempts, and every
\* upload_files run returns, whatever files fail and however often.
C27_BatchTerminates ==
  /\ [](\A f \in Tasks : up[f].calls <= 3 /\ Len(up[f].slept) <= 2)
  /\ (uf_pc \in {"call", "pool"}) ~> (uf_pc = "returned")

C27_Witness ==
  /\ uf_pc = "returned"
  /\ Cardinality(Tasks) = 2
  /\ \E f \in Tasks : up[f].pc = "raised" /\ up[f].calls = 3 /\ up[f].slept = <<1, 2>>
  /\ \E f \in Tasks : up[f].pc = "returned" /\ up[f].calls = 1
  /\ upload_worker = 1

----------------------------------------------------------------------------
(* Properties of the orchestrators *)

\* the location string gs://<bucket>/<dest_prefix>/<repo_id>
DestinationURI(bucket, dest_prefix, repo) == <<"gs://", bucket, dest_prefix>> \o repo

FailedDownloads == {f \in Downloads : dl[f].status # "ok"}

\* C8: when a non-empty proper subset of the per-file downloads of a Kaggle job
\* has failed for good, the job still returns normally, every downloaded file
\* was submitted for upload, and exactly one completion notification was
\* published.
C8_KaggleNotifiesDespiteFailedDownloads ==
  (/\ variant = "concurrent"
   /\ j_pc = "end"
   /\ FailedDownloads # {}
   /\ FailedDownloads # Downloads) =>
     /\ j_result = "returned"
     /\ \A f \in Downloads \ FailedDownloads : f \in Tasks /\ up[f].calls >= 1
     /\ Len(published) = 1

\* C9: when the HuggingFace fetch and the upload step succeeded, exactly one
\* completion notification was published, with dataset = repo id and
\* destination = gs://<bucket>/<prefix>/<repo id>.
C9_HuggingFaceNotifiesOnce ==
  (variant = "hf" /\ j_pc = "end" /\ fetchOutcome = "ok" /\ uf_pc = "returned") =>
    published = <<Message(repo_id, DestinationURI(GCS_BUCKET, GCS_PREFIX, repo_id))>>

\* C10: the value upload_files returns is gs://<bucket>/<dest_prefix>/<repo_id>,
\* and the destination of every published notification is that value.
C10_UploadFilesReturnsDestination ==
  /\ (uf_pc = "returned" /\ CallsUploadFiles(variant)) =>
       uf_ret = DestinationURI(uf_args.bucket, uf_args.dest_prefix, uf_args.repo_id)
  /\ (uf_pc = "returned" /\ variant = "cli") =>
       \A i \in 1..Len(published) : published[i].destination = uf_ret

\* C11: when the pager returned null to a Kaggle job, the job has failed as a
\* whole: no file was downloaded, no upload was attempted, no notification was
\* published, and the entry point ended by raising, not by returning.
C11_ListingFailureIsFatal ==
  (/\ variant = "concurrent"
   /\ j_pc = "end"
   /\ pg_ret.kind = "null") =>
     /\ Downloads = {}
     /\ Tasks = {}
     /\ uf_pc = "off"
     /\ published = <<>>
     /\ j_result = "raised"

\* C12: when the HuggingFace fetch step has failed, the job has ended by
\* raising, upload_files was never entered, no upload was attempted and no
\* notification was published.
C12_FetchFailureAborts ==
  (variant = "hf" /\ fetchOutcome # "ok" /\ j_pc # "start") =>
    /\ j_pc = "end"
    /\ j_result = "raised"
    /\ uf_pc = "off"
    /\ Tasks = {}
    /\ to_upload = <<>>
    /\ store = {}
    /\ published = <<>>

C12_Witness ==
  /\ variant = "hf"
  /\ fetchOutcome = "fail"
  /\ fetched # {}
  /\ j_pc = "end"
  /\ j_result = "raised"
  /\ dirCreated

\* C25: _download_file_worker makes at most 3 attempts for a file; every
\* attempt but the last was answered by a rate-limit failure and followed by a
\* sleep of 2 * 2^attempt seconds (2, then 4); any other failure ends it at
\* once; and it ends with a Status, ok exactly when its last attempt succeeded.
C25_DownloadRetryPolicy ==
  \A f \in Downloads :
    LET t == dl[f] IN
      /\ t.calls <= 3
      /\ \A i \in 1..Len(t.slept) : t.slept[i] = 2 * Pow2(i - 1)
      /\ t.calls >= 1 => t.calls - 1 <= dlScript[f].rate
      /\ t.pc \in {"attempt", "sleep"} => Len(t.slept) = t.calls
      /\ t.pc = "done" =>
           /\ t.calls >= 1
           /\ Len(t.slept) = t.calls - 1
           /\ t.status \in {"ok", "failed"}
           /\ t.status = "ok" <=> (dlScript[f].rate = t.calls - 1 /\ dlScript[f].final = "ok")
           /\ (dlScript[f].rate = 0 /\ dlScript[f].final # "ok") => t.calls = 1

C25_Witness ==
  \E f, g, h \in Downloads :
    /\ dl[f].pc = "done" /\ dl[f].status = "failed" /\ dl[f].calls = 3 /\ dl[f].slept = <<2, 4>>
    /\ dl[g].pc = "done" /\ dl[g].status = "failed" /\ dl[g].calls = 1
    /\ dl[h].pc = "done" /\ dl[h].status = "ok" /\ dl[h].calls = 2 /\ dl[h].slept = <<2>>

\* C26: at every moment the number of uploads that are attempting or sleeping
\* is at most upload_worker, and the number of downloads that are attempting
\* or sleeping is at most max_workers.
C26_BoundedWorkerPool ==
  /\ Cardinality(InFlight) <= upload_worker
  /\ Cardinality(DlInFlight) <= max_workers

C26_Witness ==
  /\ variant = "concurrent"
  /\ max_workers = 1
  /\ upload_worker = 2
  /\ Cardinality(InFlight) = 2
  /\ Queued # {}
  /\ \E f \in InFlight : up[f].pc = "sleep"

\* C19: in a Kaggle job no download has started before the listing ended,
\* upload_files is not entered before every download has finished, and a
\* notification has been published only when upload_files has returned, with
\* every upload finished, without raising.
C19_PhaseOrdering ==
  variant \in {"concurrent", "cli"} =>
    /\ (\E f \in Downloads : dl[f].pc # "queued") =>
         pg_pc \in {"DONE", "FAILED"} /\ j_pc \notin {"start", "listing"}
    /\ (uf_pc # "off" \/ Tasks # {}) =>
         \A f \in Downloads : dl[f].pc = "done" /\ dl_yielded[f] = 1
    /\ published # <<>> =>
         /\ uf_pc = "returned"
         /\ \A f \in Tasks : Finished(f) /\ yielded[f] = 1
         /\ j_pc = "end"

C19_Witness ==
  /\ variant = "concurrent"
  /\ Cardinality(Downloads) = 3
  /\ FailedDownloads # {}
  /\ \E f \in Tasks : up[f].pc = "attempt"
  /\ \E f \in Tasks : up[f].pc = "queued"

\* C28: a Kaggle job whose repo_id does not split into exactly two components
\* ends by raising with no side effect: the destination directory was not
\* created and no listing request, download, upload or notification happened.
C28_RepoIdRejectedBeforeSideEffects ==
  (variant = "concurrent" /\ ~ValidRepoId(repo_id) /\ j_pc = "end") =>
    /\ j_result = "raised"
    /\ ~dirCreated
    /\ requests = <<>>
    /\ Downloads = {}
    /\ Tasks = {}
    /\ published = <<>>

\* C29: without Kaggle credentials get_all_dataset_files issues no request and
\* returns null, and the Kaggle orchestrator ends by raising before the
\* directory is created and before any listing, download, upload or
\* notification.
C29_MissingCredentialsAbort ==
  /\ ~creds =>
       /\ requests = <<>>
       /\ pg_pc \in {"DONE", "FAILED"} => pg_pc = "FAILED" /\ pg_ret = [kind |-> "null", files |-> <<>>]
  /\ (variant = "concurrent" /\ ~creds /\ j_pc # "start") =>
       /\ j_pc = "end"
       /\ j_result = "raised"
       /\ ~dirCreated
       /\ pg_ret.kind = "pending"
       /\ Downloads = {}
       /\ Tasks = {}
       /\ uf_pc = "off"
       /\ published = <<>>

C29_Witness ==
  /\ variant = "concurrent"
  /\ ~creds
  /\ ValidRepoId(repo_id)
  /\ j_pc = "end"
  /\ j_result = "raised"
  /\ ~dirCreated

\* the page on which the pager ran out of retries
ExhaustedOn(p) ==
  /\ p \in 1..NumPages
  /\ srv[p].rate >= MAX_RETRIES
  /\ CountFor(requests, p) = MAX_RETRIES

----------------------------------------------------------------------------
(* Properties of the walk of upload_files *)

WalkOut == {walk.out[i] : i \in 1..Len(walk.out)}

\* the entry made for the file f of the tree
EntryOf(e, f) == SplitPath(e.local_path) = SplitPath(walkIn.source) \o f.dir \o <<f.name>>

\* a name of a temp or cache directory
TempOrCacheName(n) ==
  \/ (n # <<>> /\ n[1] = ".")
  \/ (Len(n) >= 3 /\ Lower(SubSeq(n, 1, 3)) = <<"t", "m", "p">>)
  \/ (Len(n) >= 4 /\ Lower(SubSeq(n, 1, 4)) = <<"t", "e", "m", "p">>)
  \/ n = <<"_", "_", "p", "y", "c", "a", "c", "h", "e", "_", "_">>

\* C13: every remote key submitted is non-empty, does not begin with '/', and
\* is made of the components of dest_prefix, then those of repo_id, then those
\* of the file's path relative to the source, for every dest_prefix and repo_id.
C13_RemoteKeyShape ==
  \A e \in WalkOut :
    /\ e.gcs_path # <<>>
    /\ e.gcs_path[1] # "/"
    /\ \E f \in walkIn.tree :
         /\ EntryOf(e, f)
         /\ SplitPath(e.gcs_path) =
              SplitPath(walkIn.dest_prefix) \o SplitPath(walkIn.repo_id) \o f.dir \o <<f.name>>

\* C14 as stated: no submitted local path has a directory component, the
\* components of the source directory included, that is named like a temp or
\* cache directory.
C14_NoPrunedComponentAnywhere ==
  \A e \in WalkOut :
    LET comps == SplitPath(e.local_path)
    IN \A k \in 1..(Len(comps) - 1) : ~TempOrCacheName(comps[k])

\* C14 amended: no submitted local path has, below the source directory, a
\* directory component that is named like a temp or cache directory; the
\* components of the source directory itself are not examined.
C14_NoPrunedComponentBelowSource ==
  \A e \in WalkOut :
    LET comps == SplitPath(e.local_path)
        top == Len(SplitPath(walkIn.source))
    IN /\ SubSeq(comps, 1, top) = SplitPath(walkIn.source)
       /\ \A k \in (top + 1)..(Len(comps) - 1) : ~TempOrCacheName(comps[k])

C14_Witness ==
  /\ walk.pc = "done"
  /\ \E f \in walkIn.tree : Len(f.dir) = 1 /\ TempOrCacheName(f.dir[1])
  /\ \E f \in walkIn.tree : Len(f.dir) = 2 /\ TempOrCacheName(f.dir[2])
  /\ \E f \in walkIn.tree : Len(f.dir) = 1 /\ ~TempOrCacheName(f.dir[1])
  /\ Len(walk.out) >= 2
  /\ \E k \in 1..Len(SplitPath(walkIn.source)) : TempOrCacheName(SplitPath(walkIn.source)[k])

\* C15: with parquet_only every submitted file name ends in '.parquet';
\* without it, once the walk is over, every file of the tree whose directories
\* below the source are all kept has been submitted, exactly once.
C15_ParquetFilter ==
  /\ walkIn.parquet_only =>
       \A e \in WalkOut :
         LET n == e.local_path
         IN Len(n) > 8 /\ SubSeq(n, Len(n) - 7, Len(n)) = <<".", "p", "a", "r", "q", "u", "e", "t">>
  /\ (~walkIn.parquet_only /\ walk.pc = "done") =>
       \A f \in walkIn.tree :
         (\A k \in 1..Len(f.dir) : ~TempOrCacheName(f.dir[k])) =>
           Cardinality({i \in 1..Len(walk.out) : EntryOf(walk.out[i], f)}) = 1

C15_Witness ==
  /\ walk.pc = "done"
  /\ walkIn.parquet_only
  /\ Cardinality(walkIn.tree) >= 5
  /\ \E f \in walkIn.tree : f.dir = <<>> /\ ~EndsWith(f.name, DOT_PARQUET)
  /\ \E f \in walkIn.tree : Len(f.dir) = 1 /\ ~EndsWith(f.name, DOT_PARQUET) /\ ~TempOrCacheName(f.dir[1])
  /\ Len(walk.out) = 2

----------------------------------------------------------------------------
(* Properties of Publisher.publish *)

\* C17: a call of Publisher.publish hands exactly one message to the Pub/Sub
\* client, never raises, and returns ok exactly when that one attempt
\* succeeded: a timeout, a missing topic or any other error gives a Status
\* that is not ok.
C17_PublishOnceNoRaise ==
  /\ Len(published) <= 1
  /\ (variant = "cli" /\ j_pc = "end" /\ uf_pc = "returned") =>
       /\ Len(published) = 1
       /\ j_result = "returned"
       /\ pub_status \in {"ok", "error"}
       /\ pub_status = "ok" <=> pubOutcome = "ok"

C17_Witness ==
  /\ variant = "cli"
  /\ j_pc = "end"
  /\ pubOutcome \notin {"ok", "timeout", "notfound"}
  /\ pub_status = "error"
  /\ Len(published) = 1

----------------------------------------------------------------------------
(* Properties of the frontend *)

\* C18: a request whose dataset, source or suffix fails validation is answered
\* 400 and the job trigger is not invoked; a request that passes validation
\* invokes the trigger exactly once and is answered 202 with status 'enqueued'
\* and the execution id when the trigger succeeds, 500 when it reports failure.
C18_EnqueueBoundary ==
  enqOut.pc = "done" =>
    IF Rejected(enq)
      THEN /\ enqOut.response.code = 400
           /\ enqOut.trigger_calls = 0
           /\ enqOut.run_job_calls = 0
      ELSE /\ enqOut.trigger_calls = 1
           /\ enqOut.run_job_calls = 1
           /\ enq.client = "ok" =>
                enqOut.response = Response(202, [status |-> "enqueued", execution |-> OperationName])
           /\ enq.client # "ok" => enqOut.response.code = 500

----------------------------------------------------------------------------
(* Properties of check_datasets_server_parquet_status *)

\* the answer lists parquet files: some configuration, or the answer itself,
\* holds a non-empty parquet_files list
ListsParquetFiles(response) ==
  /\ response.kind = "json"
  /\ response.data.kind = "dict"
  /\ \/ /\ response.data.configurations.list
        /\ \E i \in 1..Len(response.data.configurations.items) :
             LET c == response.data.configurations.items[i]
             IN c.kind = "dict" /\ NonEmptyList(c.parquet_files)
     \/ NonEmptyList(response.data.parquet_files)

\* C32: the dictionary returned by check_datasets_server_parquet_status has
\* available = true only if the answer lists a non-empty parquet_files list,
\* and has available = false whenever error_message is set.
C32_ParquetStatusConsistent ==
  pqOut.pc = "returned" =>
    /\ pqOut.status.available => ListsParquetFiles(pq.response)
    /\ pqOut.status.error_message # NoneVal => ~pqOut.status.available

====
